---- MODULE Spec2Model ----
(***************************************************************************)
(* Session pacer of ganenblue-py: class TimingVariation of                 *)
(* src/human_simulator.py, configured by SAFETY_CONFIG of src/settings.py. *)
(*                                                                         *)
(* Units.  Python floats are modelled by exact scaled integers:            *)
(*   - clock readings and configured durations are whole seconds, and the  *)
(*     clock moves on a grid of ClockGrid seconds;                         *)
(*   - a draw of random.random() is a numerator over RandomScale;          *)
(*   - a draw u of random.uniform(a, b) is a numerator over DrawScale, and *)
(*     the sampled value a + (b - a) * u is kept in units of 1/DrawScale;  *)
(*   - the delay table is in tenths of a second (DelayUnit per second);    *)
(*   - the time factor of the fatigue is in units of 1/TimeScale, the      *)
(*     count factor in units of 1/CountScale.                              *)
(***************************************************************************)
EXTENDS Integers, Sequences, FiniteSets, TLC

VARIABLES
    SAFETY_CONFIG,    \* settings.SAFETY_CONFIG, read from the environment at import
    clock,            \* the last reading of time.time()
    start_time,       \* self.start_time
    action_count,     \* self.action_count
    last_break_time,  \* self.last_break_time
    action_history,   \* self.action_history
    appended,         \* history variable: the records get_delay appended since Init
    ret,              \* the last completed operation, its inputs and its result
    other,            \* a second TimingVariation instance, <<>> when there is none
    rng,              \* the process-wide generator of module random
    callers           \* the threads inside get_delay, <<>> when the use is sequential

vars == <<SAFETY_CONFIG, clock, start_time, action_count, last_break_time,
          action_history, appended, ret, other, rng, callers>>

\* a step of a specification of one pacer, whose draws are inputs of the
\* actions: every value the generator can give at any seed and position
solo == UNCHANGED <<other, rng, callers>>

pacer == <<start_time, action_count, last_break_time, action_history>>

Min(a, b) == IF a <= b THEN a ELSE b

(***************************************************************************)
(* Scales of the integer representation.                                   *)
(***************************************************************************)
\* seconds between two neighbouring readings of the clock
ClockGrid == 1800

\* a uniform draw is 0, 1/2 or 1 of its range
DrawScale == 2

RandomScale == 1000

\* the delay table is in tenths of a second
DelayUnit == 10

\* 0.05 per hour is 1/40 per ClockGrid seconds
TimeScale == 40

\* one action past 500 adds 1/10000
CountScale == 10000

FatigueScale == TimeScale * CountScale

\* one second of a returned delay: base * fatigue * jitter
DelayScale == (DelayUnit * DrawScale) * FatigueScale * (DelayUnit * DrawScale)

(***************************************************************************)
(* Bounds of the model.                                                    *)
(***************************************************************************)
MaxTicks == 9

\* the longest session SpecFatigue starts from, past the five hours of the cap
MaxFatigueTicks == 11

MaxTime == MaxTicks * ClockGrid

end_time == start_time + MaxTime

\* get_delay calls of a session of Spec and of SpecHistory
MaxActions == 1

MaxHistoryActions == 102

\* the largest action_count SpecFatigue starts from
MaxCount == 1502

\* the widest and tallest element human_click is called on
MaxSize == 24

\* the largest draw of a normal variate, in half standard deviations
MaxNormal == 8

\* the scroll amounts run from 100 to MaxScroll
MaxScroll == 112

\* the values SpecTwo takes from the generator
MaxDrawn == 6

\* the ticks of the clock in SpecTwo
MaxTwoTicks == 2

\* the get_delay calls each thread of SpecThreads makes
MaxThreadCalls == 2

(***************************************************************************)
(* settings.py: SAFETY_CONFIG.  Every entry but RANDOM_VARIANCE comes from *)
(* the environment, so the click bounds may be anything a float can hold;  *)
(* the model draws MIN_CLICK_DELAY from its default and a negative value.  *)
(***************************************************************************)
\* seconds
DEFAULT_MAX_SESSION_DURATION == 14400

\* seconds
DEFAULT_BREAK_FREQUENCY == 3600

\* 0.5 s, in tenths
DEFAULT_MIN_CLICK_DELAY == 5

\* 2.0 s, in tenths
DEFAULT_MAX_CLICK_DELAY == 20

\* MIN_CLICK_DELAY=-0.5 in the environment, in tenths
NEGATIVE_MIN_CLICK_DELAY == -5

\* 0.3, in tenths
RANDOM_VARIANCE == 3

Configs ==
    [MAX_SESSION_DURATION : {DEFAULT_MAX_SESSION_DURATION},
     BREAK_FREQUENCY      : {DEFAULT_BREAK_FREQUENCY},
     MIN_CLICK_DELAY      : {DEFAULT_MIN_CLICK_DELAY, NEGATIVE_MIN_CLICK_DELAY},
     MAX_CLICK_DELAY      : {DEFAULT_MAX_CLICK_DELAY},
     RANDOM_VARIANCE      : {RANDOM_VARIANCE},
     ENABLE_FATIGUE       : BOOLEAN]

(***************************************************************************)
(* The random source and the clock.                                        *)
(***************************************************************************)
\* random.uniform(a, b) = a + (b - a) * random(), in units of 1/DrawScale
uniform(a, b, u) == a * DrawScale + (b - a) * u

UnitDraws == 0..DrawScale

\* the 0.001 of the micro-break, over RandomScale
MICRO_BREAK_CHANCE == 1

\* draws of random.random(): below 0.001, exactly 0.001, and 0.5

RandomDraws == {0, MICRO_BREAK_CHANCE, RandomScale \div 2}

\* the two ends of a uniform draw
EndDraws == {0, DrawScale}

\* the clock is read again later in the same call: it may have moved
ReadGaps == {0, ClockGrid}

ClockSteps == {ClockGrid, DEFAULT_BREAK_FREQUENCY, DEFAULT_MAX_SESSION_DURATION}

(***************************************************************************)
(* TimingVariation._calculate_fatigue                                      *)
(***************************************************************************)
\* 1.25, over TimeScale
TIME_FATIGUE_CAP == (125 * TimeScale) \div 100

\* 1.1, over CountScale
COUNT_FATIGUE_CAP == (11 * CountScale) \div 10

FATIGUE_ACTIONS == 500

\* mutant: the cap of the docstring's example, 1.2, instead of 1.25
time_fatigue_cap_120(session_duration) ==
    Min((120 * TimeScale) \div 100,
        TimeScale + (session_duration * TimeScale * 5) \div (3600 * 100))

\* min(1.25, 1.0 + hours * 0.05), hours = session_duration / 3600
time_fatigue(session_duration) ==
    Min(TIME_FATIGUE_CAP,
        TimeScale + (session_duration * TimeScale * 5) \div (3600 * 100))

\* mutant: the count factor without its cap
count_fatigue_uncapped(n) ==
    IF n > FATIGUE_ACTIONS
    THEN CountScale + ((n - FATIGUE_ACTIONS) * CountScale) \div 10000
    ELSE CountScale

\* min(1.1, 1.0 + (action_count - 500) / 10000) past 500 actions
count_fatigue(n) ==
    IF n > FATIGUE_ACTIONS
    THEN Min(COUNT_FATIGUE_CAP, CountScale + ((n - FATIGUE_ACTIONS) * CountScale) \div 10000)
    ELSE CountScale

\* mutant: ENABLE_FATIGUE is not consulted
calculate_fatigue_always(now, start, n, config) ==
    time_fatigue(now - start) * count_fatigue(n)

_calculate_fatigue(now, start, n, config) ==
    IF ~config.ENABLE_FATIGUE
    THEN FatigueScale
    ELSE time_fatigue(now - start) * count_fatigue(n)

(***************************************************************************)
(* TimingVariation.get_delay                                               *)
(***************************************************************************)
delay_ranges(config) ==
    [click      |-> <<config.MIN_CLICK_DELAY, config.MAX_CLICK_DELAY>>,
     battle     |-> <<3, 8>>,
     reading    |-> <<10, 30>>,
     summon     |-> <<5, 15>>,
     results    |-> <<8, 20>>,
     navigation |-> <<4, 10>>]

DEFAULT_DELAY_RANGE == <<3, 8>>

\* delay_ranges.get(action_type, (0.3, 0.8))
delay_range(action_type, config) ==
    IF action_type \in DOMAIN delay_ranges(config)
    THEN delay_ranges(config)[action_type]
    ELSE DEFAULT_DELAY_RANGE

\* 'normal' is the default argument, 'micro' and 'custom' are tags of no table row
ActionTypes ==
    {"click", "battle", "reading", "summon", "results", "navigation",
     "normal", "micro", "custom"}

base_delay(action_type, u, config) ==
    uniform(delay_range(action_type, config)[1], delay_range(action_type, config)[2], u)

\* random.uniform(1 - variance, 1 + variance)
variance_factor(u, config) ==
    uniform(DelayUnit - config.RANDOM_VARIANCE, DelayUnit + config.RANDOM_VARIANCE, u)

final_delay(base, fatigue, jitter) == (base * fatigue) * jitter

HISTORY_LIMIT == 100

\* mutant: pop() instead of pop(0), the newest record is dropped
trim_history_newest(history) ==
    IF Len(history) > HISTORY_LIMIT
    THEN SubSeq(history, 1, Len(history) - 1)
    ELSE history

\* if len(self.action_history) > 100: self.action_history.pop(0)
trim_history(history) ==
    IF Len(history) > HISTORY_LIMIT THEN Tail(history) ELSE history

action_record(t, action_type, delay) ==
    [time |-> t, type |-> action_type, delay |-> delay]

\* mutant: an action counts as a rest
get_delay_rested(action_type, u_base, u_var, gap) ==
    LET fatigue == _calculate_fatigue(clock, start_time, action_count, SAFETY_CONFIG)
        base    == base_delay(action_type, u_base, SAFETY_CONFIG)
        jitter  == variance_factor(u_var, SAFETY_CONFIG)
        delay   == final_delay(base, fatigue, jitter)
        rec     == action_record(clock + gap, action_type, delay)
    IN  /\ clock' = clock + gap
        /\ action_count' = action_count + 1
        /\ action_history' = trim_history(Append(action_history, rec))
        /\ appended' = Append(appended, rec)
        /\ last_break_time' = clock + gap
        /\ ret' = [op |-> "get_delay", type |-> action_type, time |-> clock,
                   n |-> action_count, base |-> base, fatigue |-> fatigue,
                   jitter |-> jitter, value |-> delay]
        /\ UNCHANGED <<SAFETY_CONFIG, start_time>>

get_delay(action_type, u_base, u_var, gap) ==
    LET fatigue == _calculate_fatigue(clock, start_time, action_count, SAFETY_CONFIG)
        base    == base_delay(action_type, u_base, SAFETY_CONFIG)
        jitter  == variance_factor(u_var, SAFETY_CONFIG)
        delay   == final_delay(base, fatigue, jitter)
        rec     == action_record(clock + gap, action_type, delay)
    IN  /\ clock' = clock + gap
        /\ action_count' = action_count + 1
        /\ action_history' = trim_history(Append(action_history, rec))
        /\ appended' = Append(appended, rec)
        /\ ret' = [op |-> "get_delay", type |-> action_type, time |-> clock,
                   n |-> action_count, base |-> base, fatigue |-> fatigue,
                   jitter |-> jitter, value |-> delay]
        /\ UNCHANGED <<SAFETY_CONFIG, start_time, last_break_time>>

(***************************************************************************)
(* TimingVariation.should_take_break and _get_break_duration               *)
(***************************************************************************)
DEFAULT_BREAK_DURATION == 600

break_durations(u) ==
    [micro     |-> uniform(30, 120, u),
     short     |-> uniform(300, 600, u),
     scheduled |-> uniform(600, 1200, u),
     long      |-> uniform(1800, 3600, u)]

\* mutant: the 'long' row holds the range of the 'short' row
get_break_duration_long_as_short(break_type, u) ==
    IF break_type = "long"
    THEN break_durations(u)["short"]
    ELSE IF break_type \in DOMAIN break_durations(u)
    THEN break_durations(u)[break_type]
    ELSE DEFAULT_BREAK_DURATION * DrawScale

\* durations.get(break_type, 600)
_get_break_duration(break_type, u) ==
    IF break_type \in DOMAIN break_durations(u)
    THEN break_durations(u)[break_type]
    ELSE DEFAULT_BREAK_DURATION * DrawScale

no_break == [decision |-> FALSE, duration |-> 0, trigger |-> "none"]

break_now(break_type, u) ==
    [decision |-> TRUE, duration |-> _get_break_duration(break_type, u),
     trigger |-> break_type]

\* mutant: the session limit is tested before the break frequency
break_decision_cap_first(current_time, start, last_break, r, u, config) ==
    IF current_time - start >= config.MAX_SESSION_DURATION
    THEN break_now("long", u)
    ELSE IF current_time - last_break >= config.BREAK_FREQUENCY
    THEN break_now("scheduled", u)
    ELSE IF r < MICRO_BREAK_CHANCE
    THEN break_now("micro", u)
    ELSE no_break

\* mutant: > instead of >= on the break frequency
break_decision_strict(current_time, start, last_break, r, u, config) ==
    IF current_time - last_break > config.BREAK_FREQUENCY
    THEN break_now("scheduled", u)
    ELSE IF r < MICRO_BREAK_CHANCE
    THEN break_now("micro", u)
    ELSE IF current_time - start >= config.MAX_SESSION_DURATION
    THEN break_now("long", u)
    ELSE no_break

\* mutant: <= instead of < on the micro-break draw
break_decision_micro_le(current_time, start, last_break, r, u, config) ==
    IF current_time - last_break >= config.BREAK_FREQUENCY
    THEN break_now("scheduled", u)
    ELSE IF r <= MICRO_BREAK_CHANCE
    THEN break_now("micro", u)
    ELSE IF current_time - start >= config.MAX_SESSION_DURATION
    THEN break_now("long", u)
    ELSE no_break

\* the pair returned, with the trigger that fired
\* mutant: the session limit is tested before the micro-break draw
break_decision_cap_before_micro(current_time, start, last_break, r, u, config) ==
    IF current_time - last_break >= config.BREAK_FREQUENCY
    THEN break_now("scheduled", u)
    ELSE IF current_time - start >= config.MAX_SESSION_DURATION
    THEN break_now("long", u)
    ELSE IF r < MICRO_BREAK_CHANCE
    THEN break_now("micro", u)
    ELSE no_break

\* mutant: the session limit is exceeded only past MAX_SESSION_DURATION
break_decision_cap_strict(current_time, start, last_break, r, u, config) ==
    IF current_time - last_break >= config.BREAK_FREQUENCY
    THEN break_now("scheduled", u)
    ELSE IF r < MICRO_BREAK_CHANCE
    THEN break_now("micro", u)
    ELSE IF current_time - start > config.MAX_SESSION_DURATION
    THEN break_now("long", u)
    ELSE no_break

break_decision(current_time, start, last_break, r, u, config) ==
    IF current_time - last_break >= config.BREAK_FREQUENCY
    THEN break_now("scheduled", u)
    ELSE IF r < MICRO_BREAK_CHANCE
    THEN break_now("micro", u)
    ELSE IF current_time - start >= config.MAX_SESSION_DURATION
    THEN break_now("long", u)
    ELSE no_break

\* mutant: a poll is counted as an action
should_take_break_counted(r, u) ==
    LET got == break_decision(clock, start_time, last_break_time, r, u, SAFETY_CONFIG)
    IN  /\ action_count' = action_count + 1
        /\ ret' = [op |-> "should_take_break", time |-> clock, draw |-> r,
                   since_break |-> clock - last_break_time,
                   session |-> clock - start_time,
                   decision |-> got.decision, duration |-> got.duration,
                   trigger |-> got.trigger,
                   after |-> ret.op,
                   waited |-> IF ret.op = "record_break" THEN ret.waited ELSE 0]
        /\ UNCHANGED <<SAFETY_CONFIG, clock, start_time, last_break_time,
                       action_history, appended>>

\* mutant: a poll that decides for a break records it
should_take_break_acknowledged(r, u) ==
    LET got == break_decision(clock, start_time, last_break_time, r, u, SAFETY_CONFIG)
    IN  /\ last_break_time' = IF got.decision THEN clock ELSE last_break_time
        /\ ret' = [op |-> "should_take_break", time |-> clock, draw |-> r,
                   since_break |-> clock - last_break_time,
                   session |-> clock - start_time,
                   decision |-> got.decision, duration |-> got.duration,
                   trigger |-> got.trigger,
                   after |-> ret.op,
                   waited |-> IF ret.op = "record_break" THEN ret.waited ELSE 0]
        /\ UNCHANGED <<SAFETY_CONFIG, clock, start_time, action_count,
                       action_history, appended>>

should_take_break(r, u) ==
    LET got == break_decision(clock, start_time, last_break_time, r, u, SAFETY_CONFIG)
    IN  /\ ret' = [op |-> "should_take_break", time |-> clock, draw |-> r,
                   since_break |-> clock - last_break_time,
                   session |-> clock - start_time,
                   decision |-> got.decision, duration |-> got.duration,
                   trigger |-> got.trigger,
                   \* the step before this poll, and how long the break it
                   \* recorded (if it was record_break) had been due
                   after |-> ret.op,
                   waited |-> IF ret.op = "record_break" THEN ret.waited ELSE 0]
        /\ UNCHANGED <<SAFETY_CONFIG, clock, pacer, appended>>

(***************************************************************************)
(* TimingVariation.record_break                                            *)
(***************************************************************************)
\* mutant: the break is logged and last_break_time is left as it was
record_break_not_stored ==
    /\ ret' = [op |-> "record_break", time |-> clock,
               waited |-> clock - last_break_time]
    /\ UNCHANGED <<SAFETY_CONFIG, clock, pacer, appended>>

\* mutant: a break clears the count and the history of the actions
record_break_reset_count ==
    /\ last_break_time' = clock
    /\ action_count' = 0
    /\ action_history' = <<>>
    /\ ret' = [op |-> "record_break", time |-> clock,
               waited |-> clock - last_break_time]
    /\ UNCHANGED <<SAFETY_CONFIG, clock, start_time, appended>>

\* mutant: the break is stamped with a time ahead of the clock
record_break_ahead ==
    /\ last_break_time' = clock + ClockGrid
    /\ ret' = [op |-> "record_break", time |-> clock,
               waited |-> clock - last_break_time]
    /\ UNCHANGED <<SAFETY_CONFIG, clock, start_time, action_count,
                   action_history, appended>>

\* mutant: a break starts a new session
record_break_new_session ==
    /\ last_break_time' = clock
    /\ start_time' = clock
    /\ ret' = [op |-> "record_break", time |-> clock,
               waited |-> clock - last_break_time]
    /\ UNCHANGED <<SAFETY_CONFIG, clock, action_count, action_history, appended>>

record_break ==
    /\ last_break_time' = clock
    /\ ret' = [op |-> "record_break", time |-> clock,
               waited |-> clock - last_break_time]
    /\ UNCHANGED <<SAFETY_CONFIG, clock, start_time, action_count,
                   action_history, appended>>

(***************************************************************************)
(* TimingVariation.get_session_stats: three readings of the clock          *)
(***************************************************************************)
\* mutant: the rate is computed without the test of session_duration > 0;
\* a denominator of 0 stands for the ZeroDivisionError
session_stats_unguarded(t1, t2, t3, start, last_break, n, config) ==
    [session_duration     |-> t1 - start,
     total_actions        |-> n,
     time_since_break     |-> t2 - last_break,
     current_fatigue      |-> _calculate_fatigue(t3, start, n, config),
     actions_per_hour     |-> <<n * 3600, t1 - start>>]

session_stats(t1, t2, t3, start, last_break, n, config) ==
    [session_duration     |-> t1 - start,
     total_actions        |-> n,
     time_since_break     |-> t2 - last_break,
     current_fatigue      |-> _calculate_fatigue(t3, start, n, config),
     \* action_count / (session_duration / 3600), as a fraction
     actions_per_hour     |-> IF t1 - start > 0
                              THEN <<n * 3600, t1 - start>>
                              ELSE <<0, 1>>]

\* mutant: the snapshot is counted as an action
get_session_stats_counted(gap1, gap2) ==
    /\ clock' = clock + gap1 + gap2
    /\ action_count' = action_count + 1
    /\ ret' = [op |-> "get_session_stats", time |-> clock,
               fatigue_time |-> clock + gap1 + gap2,
               stats |-> session_stats(clock, clock + gap1, clock + gap1 + gap2,
                                       start_time, last_break_time, action_count,
                                       SAFETY_CONFIG)]
    /\ UNCHANGED <<SAFETY_CONFIG, start_time, last_break_time, action_history,
                   appended>>

get_session_stats(gap1, gap2) ==
    LET t1 == clock
        t2 == clock + gap1
        t3 == clock + gap1 + gap2
    IN  /\ clock' = t3
        /\ ret' = [op |-> "get_session_stats", time |-> t1, fatigue_time |-> t3,
                   stats |-> session_stats(t1, t2, t3, start_time,
                                           last_break_time, action_count,
                                           SAFETY_CONFIG)]
        /\ UNCHANGED <<SAFETY_CONFIG, pacer, appended>>

(***************************************************************************)
(* The clock moves between two operations.                                 *)
(***************************************************************************)
Tick(d) ==
    /\ clock' = clock + d
    /\ ret' = [op |-> "tick", time |-> clock + d]
    /\ UNCHANGED <<SAFETY_CONFIG, pacer, appended>>

(***************************************************************************)
(* TimingVariation.__init__: two readings of the clock                     *)
(***************************************************************************)
\* the epoch reading at construction: any time but 0
StartTimes == {2 * ClockGrid}

\* mutant: last_break_time starts at the epoch, not at the construction time
fresh_pacer_epoch_break(configs) ==
    /\ SAFETY_CONFIG \in configs
    /\ start_time \in StartTimes
    /\ \E gap \in ReadGaps : clock = start_time + gap
    /\ last_break_time = 0
    /\ action_count = 0
    /\ action_history = <<>>
    /\ appended = <<>>
    /\ ret = [op |-> "__init__", time |-> start_time]

fresh_pacer(configs) ==
    /\ SAFETY_CONFIG \in configs
    /\ start_time \in StartTimes
    /\ \E gap \in ReadGaps : clock = start_time + gap
    /\ last_break_time = clock
    /\ action_count = 0
    /\ action_history = <<>>
    /\ appended = <<>>
    /\ ret = [op |-> "__init__", time |-> start_time]

(***************************************************************************)
(* Spec: one session of a pacer under the default configuration.  Every    *)
(* operation is called in any order while the clock moves; get_delay is    *)
(* called with two tags and the midpoint draws, the clock at rest.         *)
(***************************************************************************)
DefaultConfigs ==
    {c \in Configs : c.MIN_CLICK_DELAY = DEFAULT_MIN_CLICK_DELAY /\ c.ENABLE_FATIGUE}

\* one pacer in the process; the generator is not followed
alone ==
    /\ other = <<>>
    /\ rng = [seed |-> 0, drawn |-> 0]
    /\ callers = <<>>

Init == fresh_pacer(DefaultConfigs) /\ alone

SessionTypes == {"click", "battle"}

MidDraw == DrawScale \div 2

GetDelay ==
    /\ action_count < MaxActions
    /\ \E action_type \in SessionTypes :
        get_delay(action_type, MidDraw, MidDraw, 0)
    /\ solo

ShouldTakeBreak ==
    /\ \E r \in RandomDraws, u \in UnitDraws : should_take_break(r, u)
    /\ solo

RecordBreak == record_break /\ solo

GetSessionStats ==
    \E gap1 \in ReadGaps, gap2 \in ReadGaps :
        /\ clock + gap1 + gap2 <= end_time
        /\ get_session_stats(gap1, gap2)
        /\ solo

Advance ==
    \E d \in ClockSteps :
        /\ clock + d <= end_time
        /\ Tick(d)
        /\ solo

Next ==
    \/ GetDelay
    \/ ShouldTakeBreak
    \/ RecordBreak
    \/ GetSessionStats
    \/ Advance

Spec == Init /\ [][Next]_vars

(***************************************************************************)
(* SpecDelay: the first get_delay of a pacer, at any time of the clock,     *)
(* under every configuration, with every tag, every draw and a clock that  *)
(* may move inside the call.                                               *)
(***************************************************************************)
InitDelay == fresh_pacer(Configs) /\ alone

DelayGetDelay ==
    /\ action_count = 0
    /\ \E action_type \in ActionTypes, u_base \in UnitDraws, u_var \in UnitDraws,
          gap \in ReadGaps :
        /\ clock + gap <= end_time
        /\ get_delay(action_type, u_base, u_var, gap)
        /\ solo

NextDelay ==
    \/ DelayGetDelay
    \/ Advance

SpecDelay == InitDelay /\ [][NextDelay]_vars

(***************************************************************************)
(* SpecHistory: a long burst of get_delay calls on a fresh pacer; the      *)
(* clock moves once, at any point of the burst.                            *)
(***************************************************************************)
HistoryGetDelay ==
    /\ action_count < MaxHistoryActions
    /\ get_delay("battle", MidDraw, MidDraw, 0)
    /\ solo

HistoryAdvance ==
    /\ clock = start_time
    /\ Tick(ClockGrid)
    /\ solo

NextHistory ==
    \/ HistoryGetDelay
    \/ HistoryAdvance

SpecHistory == Init /\ [][NextHistory]_vars

(***************************************************************************)
(* SpecFatigue: _calculate_fatigue, through get_session_stats and          *)
(* get_delay, in a pacer that has already made n get_delay calls (a burst  *)
(* at start_time) and has run for any time of the clock's grid.            *)
(***************************************************************************)
FatigueConfigs == {c \in Configs : c.MIN_CLICK_DELAY = DEFAULT_MIN_CLICK_DELAY}

\* the last records of a burst of n calls get_delay('battle') at start_time:
\* the c-th call computes its fatigue with the c - 1 actions before it
burst_history(n, start, config) ==
    LET kept   == Min(n, HISTORY_LIMIT)
        base   == base_delay("battle", MidDraw, config)
        jitter == variance_factor(MidDraw, config)
    IN  [i \in 1..kept |->
            action_record(start, "battle",
                final_delay(base,
                            _calculate_fatigue(start, start, n - kept + i - 1, config),
                            jitter))]

InitFatigue ==
    /\ SAFETY_CONFIG \in FatigueConfigs
    /\ start_time \in StartTimes
    /\ last_break_time = start_time
    /\ \E k \in 0..MaxFatigueTicks : clock = start_time + k * ClockGrid
    /\ action_count \in 0..MaxCount
    /\ action_history = burst_history(action_count, start_time, SAFETY_CONFIG)
    /\ appended = <<>>
    /\ ret = [op |-> "__init__", time |-> start_time]
    /\ alone

FatigueStats ==
    /\ ret.op = "__init__"
    /\ get_session_stats(0, 0)
    /\ solo

FatigueGetDelay ==
    /\ ret.op = "__init__"
    /\ get_delay("battle", MidDraw, MidDraw, 0)
    /\ solo

NextFatigue ==
    \/ FatigueStats
    \/ FatigueGetDelay

SpecFatigue == InitFatigue /\ [][NextFatigue]_vars

(***************************************************************************)
(* SpecWear: one step of any kind, an operation or a move of the clock,    *)
(* from every state of SpecFatigue's Init: a pacer of any age and any      *)
(* count.                                                                  *)
(***************************************************************************)
WearGetDelay ==
    /\ ret.op = "__init__"
    /\ get_delay("battle", MidDraw, MidDraw, 0)
    /\ solo

WearStats ==
    /\ ret.op = "__init__"
    /\ \E gap \in ReadGaps : get_session_stats(0, gap)
    /\ solo

WearShouldTakeBreak ==
    /\ ret.op = "__init__"
    /\ should_take_break(RandomScale \div 2, MidDraw)
    /\ solo

WearRecordBreak ==
    /\ ret.op = "__init__"
    /\ record_break
    /\ solo

WearAdvance ==
    /\ ret.op = "__init__"
    /\ Tick(ClockGrid)
    /\ solo

NextWear ==
    \/ WearGetDelay
    \/ WearStats
    \/ WearShouldTakeBreak
    \/ WearRecordBreak
    \/ WearAdvance

SpecWear == InitFatigue /\ [][NextWear]_vars

(***************************************************************************)
(* HumanBehavior: the static gesture helpers.  A draw of np.random.normal  *)
(* is z half standard deviations from the mean; with a standard deviation  *)
(* of 0 the draw is the mean.  Milliseconds are kept in units of           *)
(* 1/MsScale.                                                              *)
(***************************************************************************)
MsScale == 12

NormalDraws == -MaxNormal..MaxNormal

\* np.clip(a, a_min, a_max) is minimum(a_max, maximum(a, a_min)), also when
\* a_min > a_max
clip(a, a_min, a_max) ==
    LET raised == IF a < a_min THEN a_min ELSE a
    IN  IF raised > a_max THEN a_max ELSE raised

\* int(num / den) of a float: truncation toward zero
int(num, den) ==
    IF num >= 0 THEN num \div den ELSE -((-num) \div den)

\* mutant: the normal draw is not clipped
delay_ms_unclipped(min_ms, max_ms, distribution, z, u) ==
    IF distribution = "normal"
    THEN IF max_ms - min_ms < 0
         THEN [raised |-> "ValueError", delay_ms |-> 0]
         ELSE [raised |-> "none",
               delay_ms |-> (MsScale \div 2) * (min_ms + max_ms) + z * (max_ms - min_ms)]
    ELSE [raised |-> "none",
          delay_ms |-> MsScale * min_ms
                         + (MsScale \div DrawScale) * u * (max_ms - min_ms)]

\* the delay of human_delay: mean (min + max) / 2, standard deviation
\* (max - min) / 6, clipped; np.random.normal raises ValueError on a negative
\* standard deviation; random.uniform takes its bounds in any order
delay_ms(min_ms, max_ms, distribution, z, u) ==
    IF distribution = "normal"
    THEN IF max_ms - min_ms < 0
         THEN [raised |-> "ValueError", delay_ms |-> 0]
         ELSE [raised |-> "none",
               delay_ms |-> clip((MsScale \div 2) * (min_ms + max_ms)
                                   + z * (max_ms - min_ms),
                                 MsScale * min_ms, MsScale * max_ms)]
    ELSE [raised |-> "none",
          delay_ms |-> MsScale * min_ms
                         + (MsScale \div DrawScale) * u * (max_ms - min_ms)]

\* human_delay sleeps for the delay and returns nothing; slept is <<>> when
\* the sampler raised
human_delay(min_ms, max_ms, distribution, z, u) ==
    LET d == delay_ms(min_ms, max_ms, distribution, z, u)
    IN  /\ ret' = [op |-> "human_delay", min_ms |-> min_ms, max_ms |-> max_ms,
                   distribution |-> distribution, raised |-> d.raised,
                   slept |-> IF d.raised = "none" THEN <<d.delay_ms>> ELSE <<>>]
        /\ UNCHANGED <<SAFETY_CONFIG, clock, pacer, appended>>

\* one axis of the click offset: max_offset = min(variance, size // 3), the
\* draw has standard deviation max_offset / 2 and is truncated by int(), the
\* clip is to [-size // 2 + 5, size // 2 - 5], where -size // 2 is the floor
\* of -size / 2
click_offset(size, variance, z) ==
    LET max_offset == Min(variance, size \div 3)
    IN  IF max_offset < 0
        THEN [raised |-> "ValueError", offset |-> 0]
        ELSE [raised |-> "none",
              offset |-> clip(int(z * max_offset, 4),
                              ((-size) \div 2) + 5, (size \div 2) - 5)]

\* human_click: nothing is done on an element that is not displayed; an
\* exception of the offset computation is caught and element.click() clicks
\* the centre instead; otherwise the pointer moves to the offset, pauses for
\* human_delay(50, 200) and clicks
human_click(displayed, width, height, variance, zx, zy, z) ==
    LET x == click_offset(width, variance, zx)
        y == click_offset(height, variance, zy)
        raised == IF x.raised # "none" THEN x.raised ELSE y.raised
    IN  /\ ret' = [op |-> "human_click", displayed |-> displayed,
                   width |-> width, height |-> height, variance |-> variance,
                   raised |-> IF displayed THEN raised ELSE "none",
                   clicked |-> IF ~displayed THEN <<>>
                               ELSE IF raised # "none" THEN <<0, 0>>
                               ELSE <<x.offset, y.offset>>,
                   slept |-> IF displayed /\ raised = "none"
                             THEN <<delay_ms(50, 200, "normal", z, 0).delay_ms>>
                             ELSE <<>>,
                   returned |-> displayed]
        /\ UNCHANGED <<SAFETY_CONFIG, clock, pacer, appended>>

ScrollSteps == 2..5

\* human_scroll: scroll_per_step = scroll_amount // steps, scrolled steps
\* times; each step is followed by human_delay(50, 150)
scroll_plan(direction, amount, steps) ==
    LET scroll_amount == IF direction = "down" THEN amount ELSE -amount
        scroll_per_step == scroll_amount \div steps
    IN  [i \in 1..steps |-> scroll_per_step]

human_scroll(direction, amount, steps) ==
    /\ ret' = [op |-> "human_scroll", direction |-> direction,
               amount |-> amount, steps |-> steps,
               scrolled |-> scroll_plan(direction, amount, steps)]
    /\ UNCHANGED <<SAFETY_CONFIG, clock, pacer, appended>>

(***************************************************************************)
(* SpecGesture: one call of a gesture helper, with every input and every   *)
(* draw of a bounded set.                                                  *)
(***************************************************************************)
DelayBounds == {0, 50, 100, 150, 200, 500}

Sizes == {-9, 0, 9} \cup 20..MaxSize

Variances == {0, 5, 10}

ScrollAmounts == {7, 500} \cup 100..MaxScroll

HumanDelay ==
    /\ ret.op = "__init__"
    /\ \E min_ms \in DelayBounds, max_ms \in DelayBounds,
          distribution \in {"normal", "uniform"},
          z \in NormalDraws, u \in UnitDraws :
            /\ distribution = "normal" => u = 0
            /\ distribution = "uniform" => z = 0
            /\ human_delay(min_ms, max_ms, distribution, z, u)
    /\ solo

HumanClick ==
    /\ ret.op = "__init__"
    /\ \E displayed \in BOOLEAN, width \in Sizes, height \in Sizes,
          variance \in Variances, zx \in NormalDraws, zy \in NormalDraws,
          z \in {-MaxNormal, 0, MaxNormal} :
            human_click(displayed, width, height, variance, zx, zy, z)
    /\ solo

HumanScroll ==
    /\ ret.op = "__init__"
    /\ \E direction \in {"down", "up"}, amount \in ScrollAmounts,
          steps \in ScrollSteps :
            human_scroll(direction, amount, steps)
    /\ solo

NextGesture ==
    \/ HumanDelay
    \/ HumanClick
    \/ HumanScroll

SpecGesture == Init /\ [][NextGesture]_vars

(***************************************************************************)
(* SpecTwo: two pacers of one process.  Both take their draws from the     *)
(* generator of module random, seeded once: rng.seed is the seed and       *)
(* rng.drawn the number of values taken so far.  The sequence a seed       *)
(* gives is abstracted to a fixed cycle over the grid of the draws.        *)
(***************************************************************************)
Seeds == {0, 1}

\* the value of random.random() k values ahead, a numerator over RandomScale
random(g, k) ==
    ((g.seed + g.drawn + k) % (DrawScale + 1)) * (RandomScale \div DrawScale)

\* the same value as the u of random.uniform(a, b)
unit(g, k) == (random(g, k) * DrawScale) \div RandomScale

advanced(g, used) == [g EXCEPT !.drawn = @ + used]

\* the draws should_take_break makes: none before a scheduled break, else
\* one random.random(); _get_break_duration draws all four of its durations,
\* in the order micro, short, scheduled, long
break_draws(current_time, start, last_break, g, config) ==
    IF current_time - last_break >= config.BREAK_FREQUENCY
    THEN [r |-> RandomScale, u |-> unit(g, 2), used |-> 4]
    ELSE IF random(g, 0) < MICRO_BREAK_CHANCE
    THEN [r |-> random(g, 0), u |-> unit(g, 1), used |-> 5]
    ELSE IF current_time - start >= config.MAX_SESSION_DURATION
    THEN [r |-> random(g, 0), u |-> unit(g, 4), used |-> 5]
    ELSE [r |-> random(g, 0), u |-> 0, used |-> 1]

\* the pacer of the variables, as a record
first ==
    [start_time |-> start_time, action_count |-> action_count,
     last_break_time |-> last_break_time, action_history |-> action_history]

\* what p.get_delay(action_type) returns at the reading t with the generator at g
next_delay(p, t, g, action_type) ==
    final_delay(base_delay(action_type, unit(g, 0), SAFETY_CONFIG),
                _calculate_fatigue(t, p.start_time, p.action_count, SAFETY_CONFIG),
                variance_factor(unit(g, 1), SAFETY_CONFIG))

\* what p.should_take_break() returns at the reading t with the generator at g
next_break(p, t, g) ==
    LET d == break_draws(t, p.start_time, p.last_break_time, g, SAFETY_CONFIG)
    IN  break_decision(t, p.start_time, p.last_break_time, d.r, d.u, SAFETY_CONFIG)

InitTwo ==
    /\ fresh_pacer(DefaultConfigs)
    /\ other = [start_time |-> clock, action_count |-> 0,
                last_break_time |-> clock, action_history |-> <<>>]
    /\ rng \in [seed : Seeds, drawn : {0}]
    /\ callers = <<>>

TwoGetDelay ==
    /\ rng.drawn + 2 <= MaxDrawn
    /\ \E action_type \in SessionTypes :
        get_delay(action_type, unit(rng, 0), unit(rng, 1), 0)
    /\ rng' = advanced(rng, 2)
    /\ UNCHANGED <<other, callers>>

TwoShouldTakeBreak ==
    LET d == break_draws(clock, start_time, last_break_time, rng, SAFETY_CONFIG)
    IN  /\ rng.drawn + d.used <= MaxDrawn
        /\ should_take_break(d.r, d.u)
        /\ rng' = advanced(rng, d.used)
        /\ UNCHANGED <<other, callers>>

TwoRecordBreak == record_break /\ UNCHANGED <<other, rng, callers>>

OtherGetDelay ==
    /\ rng.drawn + 2 <= MaxDrawn
    /\ \E action_type \in SessionTypes :
        LET delay == next_delay(other, clock, rng, action_type)
        IN  /\ other' = [other EXCEPT
                    !.action_count = @ + 1,
                    !.action_history =
                        trim_history(Append(@, action_record(clock, action_type, delay)))]
            /\ ret' = [op |-> "other.get_delay", type |-> action_type,
                       time |-> clock, value |-> delay]
    /\ rng' = advanced(rng, 2)
    /\ UNCHANGED <<SAFETY_CONFIG, clock, pacer, appended, callers>>

OtherShouldTakeBreak ==
    LET d == break_draws(clock, other.start_time, other.last_break_time, rng,
                         SAFETY_CONFIG)
        got == next_break(other, clock, rng)
    IN  /\ rng.drawn + d.used <= MaxDrawn
        /\ ret' = [op |-> "other.should_take_break", time |-> clock,
                   decision |-> got.decision, duration |-> got.duration,
                   trigger |-> got.trigger]
        /\ rng' = advanced(rng, d.used)
        /\ UNCHANGED <<SAFETY_CONFIG, clock, pacer, appended, other, callers>>

OtherRecordBreak ==
    /\ other' = [other EXCEPT !.last_break_time = clock]
    /\ ret' = [op |-> "other.record_break", time |-> clock]
    /\ UNCHANGED <<SAFETY_CONFIG, clock, pacer, appended, rng, callers>>

TwoAdvance ==
    \E d \in ClockSteps :
        /\ clock + d <= start_time + MaxTwoTicks * ClockGrid
        /\ Tick(d)
        /\ solo

NextTwo ==
    \/ TwoGetDelay
    \/ TwoShouldTakeBreak
    \/ TwoRecordBreak
    \/ OtherGetDelay
    \/ OtherShouldTakeBreak
    \/ OtherRecordBreak
    \/ TwoAdvance

SpecTwo == InitTwo /\ [][NextTwo]_vars

(***************************************************************************)
(* SpecThreads: two threads calling get_delay on one pacer.  The class has *)
(* no lock, and a thread may be switched between any two of the            *)
(* statements of get_delay and between the read and the write of           *)
(* self.action_count += 1.  callers.mutex is the lock the code calling the *)
(* pacer may hold around each call: "absent" when those calls are not      *)
(* serialized, else "free" or "held".                                      *)
(***************************************************************************)
Threads == {1, 2}

\* mutant: the lock of the calling code excludes nobody
may_enter_always(mutex) == TRUE

\* a call may start when the calling code has no lock or the lock is free
may_enter(mutex) == mutex \in {"absent", "free"}

at(t) == callers.at[t]

\* thread t moves to pc with the locals given, the other thread as it was
moved(t, pc, locals) ==
    [callers EXCEPT !.at[t] = [locals EXCEPT !.pc = pc]]

quiet == UNCHANGED <<SAFETY_CONFIG, clock, other, rng>>

\* the call starts
thread_call(t) ==
    /\ at(t).pc = "idle"
    /\ at(t).calls < MaxThreadCalls
    /\ may_enter(callers.mutex)
    /\ callers' = [moved(t, "fatigue", [at(t) EXCEPT !.calls = @ + 1])
                     EXCEPT !.mutex = IF @ = "absent" THEN @ ELSE "held"]
    /\ UNCHANGED <<pacer, appended, ret>>
    /\ quiet

\* lines 213-224: the fatigue reads action_count, the delay is computed
thread_fatigue(t) ==
    /\ at(t).pc = "fatigue"
    /\ callers' = moved(t, "load",
                    [at(t) EXCEPT !.seen = action_count,
                                  !.fatigue = _calculate_fatigue(clock, start_time,
                                                  action_count, SAFETY_CONFIG)])
    /\ UNCHANGED <<pacer, appended, ret>>
    /\ quiet

\* line 227, self.action_count += 1: the read
thread_load(t) ==
    /\ at(t).pc = "load"
    /\ callers' = moved(t, "store", [at(t) EXCEPT !.n = action_count])
    /\ UNCHANGED <<pacer, appended, ret>>
    /\ quiet

\* line 227, self.action_count += 1: the write
thread_store(t) ==
    /\ at(t).pc = "store"
    /\ action_count' = at(t).n + 1
    /\ callers' = moved(t, "append", at(t))
    /\ UNCHANGED <<start_time, last_break_time, action_history, appended, ret>>
    /\ quiet

\* lines 228-236: the record is appended, the history trimmed
thread_append(t) ==
    LET delay == final_delay(base_delay("battle", MidDraw, SAFETY_CONFIG),
                             at(t).fatigue,
                             variance_factor(MidDraw, SAFETY_CONFIG))
        rec   == action_record(clock, "battle", delay)
    IN  /\ at(t).pc = "append"
        /\ action_history' = trim_history(Append(action_history, rec))
        /\ appended' = Append(appended, rec)
        /\ callers' = moved(t, "return", at(t))
        /\ UNCHANGED <<start_time, action_count, last_break_time, ret>>
        /\ quiet

\* line 240: the call returns, the calling code releases its lock
thread_return(t) ==
    LET base   == base_delay("battle", MidDraw, SAFETY_CONFIG)
        jitter == variance_factor(MidDraw, SAFETY_CONFIG)
    IN  /\ at(t).pc = "return"
        /\ callers' = [moved(t, "idle", at(t))
                         EXCEPT !.mutex = IF @ = "absent" THEN @ ELSE "free",
                                !.completed = @ + 1]
        /\ ret' = [op |-> "get_delay", type |-> "battle", time |-> clock,
                   n |-> at(t).seen, base |-> base, fatigue |-> at(t).fatigue,
                   jitter |-> jitter,
                   value |-> final_delay(base, at(t).fatigue, jitter)]
        /\ UNCHANGED <<pacer, appended>>
        /\ quiet

InitThreads ==
    /\ fresh_pacer(DefaultConfigs)
    /\ other = <<>>
    /\ rng = [seed |-> 0, drawn |-> 0]
    /\ \E mutex \in {"absent", "free"} :
        callers = [mutex |-> mutex, completed |-> 0,
                   at |-> [t \in Threads |->
                            [pc |-> "idle", calls |-> 0, seen |-> 0,
                             fatigue |-> 0, n |-> 0]]]

ThreadCall == \E t \in Threads : thread_call(t)

ThreadFatigue == \E t \in Threads : thread_fatigue(t)

ThreadLoad == \E t \in Threads : thread_load(t)

ThreadStore == \E t \in Threads : thread_store(t)

ThreadAppend == \E t \in Threads : thread_append(t)

ThreadReturn == \E t \in Threads : thread_return(t)

NextThreads ==
    \/ ThreadCall
    \/ ThreadFatigue
    \/ ThreadLoad
    \/ ThreadStore
    \/ ThreadAppend
    \/ ThreadReturn

SpecThreads == InitThreads /\ [][NextThreads]_vars

(***************************************************************************)
(* The claims.  A duration of d seconds is d * DrawScale in the model.     *)
(***************************************************************************)
seconds(d) == d * DrawScale

polled == ret.op = "should_take_break"

\* C1: after n completed get_delay calls, action_history holds exactly the
\* min(n, 100) most recent records in call order; its length never exceeds
\* 100, and the 101st and every later append evicts exactly the oldest record.
C1_HistoryIsLast100 ==
    LET n    == Len(appended)
        kept == IF n <= 100 THEN n ELSE 100
    IN  /\ Len(action_history) <= 100
        /\ Len(action_history) = kept
        /\ action_history = SubSeq(appended, n - kept + 1, n)

\* the 101st record is in, the first one is out, and the two differ
C1_Witness ==
    /\ Len(appended) = 101
    /\ Len(action_history) = 100
    /\ appended[1] # appended[101]
    /\ action_history[100] = appended[101]

\* C2: get_delay always returns a non-negative value, under every
\* configuration (floored at 0 where the product would be negative).
C2_DelayNeverNegative ==
    ret.op = "get_delay" => ret.value >= 0

\* C3: when the break frequency and the session maximum are both exceeded at
\* the same poll, should_take_break reports the scheduled break (true, a
\* duration within [600, 1200] s), not the session-cap break, for every draw.
C3_ScheduledBeforeSessionCap ==
    (/\ polled
     /\ ret.since_break >= SAFETY_CONFIG.BREAK_FREQUENCY
     /\ ret.session >= SAFETY_CONFIG.MAX_SESSION_DURATION)
    => /\ ret.decision
       /\ ret.trigger = "scheduled"
       /\ ret.duration >= seconds(600)
       /\ ret.duration <= seconds(1200)

\* both limits are exceeded and the draw would also fire the micro-break
C3_Witness ==
    /\ polled
    /\ ret.since_break >= SAFETY_CONFIG.BREAK_FREQUENCY
    /\ ret.session >= SAFETY_CONFIG.MAX_SESSION_DURATION
    /\ ret.draw < MICRO_BREAK_CHANCE
    /\ ret.trigger = "scheduled"

\* C4: whenever now - last_break_time >= BREAK_FREQUENCY, equality included,
\* should_take_break returns true with a duration within [600, 1200] s, for
\* every draw and every action_count.
C4_ScheduledBreakDue ==
    (polled /\ ret.time - last_break_time >= SAFETY_CONFIG.BREAK_FREQUENCY)
    => /\ ret.decision
       /\ seconds(600) <= ret.duration
       /\ ret.duration <= seconds(1200)

\* exactly BREAK_FREQUENCY after the last break, after a get_delay, with a
\* draw that fires no micro-break, in a session below its maximum
C4_Witness ==
    /\ polled
    /\ ret.time - last_break_time = SAFETY_CONFIG.BREAK_FREQUENCY
    /\ ret.draw >= MICRO_BREAK_CHANCE
    /\ ret.session < SAFETY_CONFIG.MAX_SESSION_DURATION
    /\ action_count > 0
    /\ ret.decision

\* C5: should_take_break returns (false, 0) exactly when no trigger fires
\* (time since the break < frequency, draw >= 0.001, session < maximum); a
\* true decision has a duration > 0 within [30, 3600] s, a false one has 0.
C5_NoBreakIffNoTrigger ==
    polled =>
        /\ (~ret.decision /\ ret.duration = 0)
             <=> (/\ ret.since_break < SAFETY_CONFIG.BREAK_FREQUENCY
                  /\ ret.draw * 1000 >= 1 * RandomScale
                  /\ ret.session < SAFETY_CONFIG.MAX_SESSION_DURATION)
        /\ ret.decision =>
             (ret.duration > 0 /\ ret.duration >= seconds(30)
                               /\ ret.duration <= seconds(3600))
        /\ ~ret.decision => ret.duration = 0

\* no trigger fires, with the draw exactly 0.001 and some time gone by
C5_Witness ==
    /\ polled
    /\ ~ret.decision
    /\ ret.duration = 0
    /\ ret.draw = MICRO_BREAK_CHANCE
    /\ ret.since_break > 0

\* C6: in a session at or past the session maximum, the poll that follows a
\* recorded break (time since the break < frequency, draw >= 0.001) returns
\* true with a 'long' duration within [1800, 3600] s.
C6_RepollRevealsSessionCap ==
    (/\ polled
     /\ ret.session >= SAFETY_CONFIG.MAX_SESSION_DURATION
     /\ ret.since_break < SAFETY_CONFIG.BREAK_FREQUENCY
     /\ ret.draw >= MICRO_BREAK_CHANCE)
    => /\ ret.decision
       /\ ret.trigger = "long"
       /\ seconds(1800) <= ret.duration
       /\ ret.duration <= seconds(3600)

\* the poll right after record_break, the recorded break having been due
C6_Witness ==
    /\ polled
    /\ ret.after = "record_break"
    /\ ret.waited >= SAFETY_CONFIG.BREAK_FREQUENCY
    /\ ret.session >= SAFETY_CONFIG.MAX_SESSION_DURATION
    /\ ret.draw >= MICRO_BREAK_CHANCE
    /\ ret.trigger = "long"

\* C7: a should_take_break evaluated right after record_break, no time gone
\* by, does not fire the scheduled trigger, however long the previous break
\* had been due.
C7_NoScheduledRightAfterRecord ==
    (polled /\ ret.after = "record_break") => ret.trigger # "scheduled"

\* the break recorded just before the poll had been due for a while
C7_Witness ==
    /\ polled
    /\ ret.after = "record_break"
    /\ ret.waited > SAFETY_CONFIG.BREAK_FREQUENCY
    /\ ret.trigger # "scheduled"

\* C8: should_take_break right after construction (no time elapsed, no
\* action) with a draw >= 0.001 returns (false, 0).
C8_NoBreakAtConstruction ==
    (/\ polled
     /\ ret.time = start_time
     /\ action_count = 0
     /\ ret.draw >= MICRO_BREAK_CHANCE)
    => (~ret.decision /\ ret.duration = 0)

C8_Witness ==
    /\ polled
    /\ ret.after = "__init__"
    /\ ret.time = start_time
    /\ action_count = 0
    /\ ret.draw >= MICRO_BREAK_CHANCE
    /\ ~ret.decision

\* the multiplier an operation has just computed, with the elapsed time and
\* the action count it was computed from
observed_fatigue ==
    IF ret.op = "get_session_stats"
    THEN [f |-> ret.stats.current_fatigue, t |-> ret.fatigue_time - start_time,
          n |-> ret.stats.total_actions]
    ELSE [f |-> ret.fatigue, t |-> ret.time - start_time, n |-> ret.n]

fatigue_observed == ret.op \in {"get_session_stats", "get_delay"}

\* the claimed time factor, over TimeScale: 1 + 0.05 per hour up to 1.25
claimed_time_factor(t) ==
    IF t >= 5 * 3600
    THEN (5 * TimeScale) \div 4
    ELSE TimeScale + (t * TimeScale) \div (20 * 3600)

\* the claimed count factor, over CountScale
claimed_count_factor(n) ==
    IF n <= 500 THEN CountScale
    ELSE IF n >= 1500 THEN (11 * CountScale) \div 10
    ELSE CountScale + ((n - 500) * CountScale) \div 10000

\* C9: with fatigue enabled the multiplier is min(1.25, 1 + 0.05 * t_hours)
\* times (min(1.1, 1 + (n - 500) / 10000) if n > 500, else 1); the time factor
\* is 1.0 at t = 0, 1.10 at 2 h, 1.25 from 5 h on; the count factor is 1.0 up
\* to n = 500 and reaches 1.1 at n = 1500.
C9_FatigueFormula ==
    (fatigue_observed /\ SAFETY_CONFIG.ENABLE_FATIGUE) =>
        LET o == observed_fatigue
        IN  /\ o.f = claimed_time_factor(o.t) * claimed_count_factor(o.n)
            /\ (o.t = 0 /\ o.n <= 500) => o.f = FatigueScale
            /\ (o.t = 2 * 3600 /\ o.n <= 500) => o.f * 10 = 11 * FatigueScale
            /\ (o.t >= 5 * 3600 /\ o.n <= 500) => o.f * 4 = 5 * FatigueScale
            /\ (o.t = 0 /\ o.n >= 1500) => o.f * 10 = 11 * FatigueScale

\* two hours in, 1500 actions: 1.10 * 1.1
C9_Witness ==
    /\ ret.op = "get_session_stats"
    /\ SAFETY_CONFIG.ENABLE_FATIGUE
    /\ observed_fatigue.t = 2 * 3600
    /\ observed_fatigue.n = 1500
    /\ observed_fatigue.f * 100 = 121 * FatigueScale

\* C10: in every state the fatigue multiplier is within [1.0, 1.375], its time
\* factor within [1.0, 1.25] and its count factor within [1.0, 1.1].
C10_FatigueBounded ==
    LET f == _calculate_fatigue(clock, start_time, action_count, SAFETY_CONFIG)
        tf == time_fatigue(clock - start_time)
        cf == count_fatigue(action_count)
    IN  /\ FatigueScale <= f
        /\ f * 1000 <= 1375 * FatigueScale
        /\ TimeScale <= tf /\ tf * 100 <= 125 * TimeScale
        /\ CountScale <= cf /\ cf * 10 <= 11 * CountScale
        /\ fatigue_observed =>
             (/\ FatigueScale <= observed_fatigue.f
              /\ observed_fatigue.f * 1000 <= 1375 * FatigueScale)

\* both factors at their caps: the multiplier is 1.375
C10_Witness ==
    /\ ret.op = "get_session_stats"
    /\ clock - start_time > 5 * 3600
    /\ action_count > 1500
    /\ observed_fatigue.f * 1000 = 1375 * FatigueScale

\* C11: get_delay computes the count factor of the fatigue with the
\* post-increment action_count, the count that includes the current call: the
\* 501st call of a pacer uses n = 501 > 500.
C11_FatigueCountsCurrentCall ==
    (ret.op = "get_delay" /\ SAFETY_CONFIG.ENABLE_FATIGUE) =>
        ret.fatigue = claimed_time_factor(ret.time - start_time)
                        * claimed_count_factor(action_count)

\* C12: with ENABLE_FATIGUE false the multiplier is exactly 1.0 in every
\* state, for any elapsed time and any action_count, as applied by get_delay
\* and as reported by get_session_stats.
C12_NoFatigueWhenDisabled ==
    ~SAFETY_CONFIG.ENABLE_FATIGUE =>
        /\ _calculate_fatigue(clock, start_time, action_count, SAFETY_CONFIG)
             = FatigueScale
        /\ fatigue_observed => observed_fatigue.f = FatigueScale
        /\ ret.op = "get_delay" => ret.value = ret.base * FatigueScale * ret.jitter

\* disabled, past five hours and 1500 actions, where the enabled multiplier
\* is at its maximum
C12_Witness ==
    /\ ~SAFETY_CONFIG.ENABLE_FATIGUE
    /\ ret.op = "get_delay"
    /\ ret.time - start_time > 5 * 3600
    /\ ret.n > 1500
    /\ ret.fatigue = FatigueScale

\* the claimed table of base ranges, in tenths of a second
claimed_range(action_type) ==
    CASE action_type = "click"      -> <<SAFETY_CONFIG.MIN_CLICK_DELAY,
                                         SAFETY_CONFIG.MAX_CLICK_DELAY>>
      [] action_type = "battle"     -> <<3, 8>>
      [] action_type = "reading"    -> <<10, 30>>
      [] action_type = "summon"     -> <<5, 15>>
      [] action_type = "results"    -> <<8, 20>>
      [] action_type = "navigation" -> <<4, 10>>
      [] OTHER                      -> <<3, 8>>

\* C13: for every tag get_delay returns base * f * j, base within the range
\* of the tag's table row (any other tag: [0.3, 0.8]), f the current fatigue
\* multiplier, j within [1 - variance, 1 + variance]; hence the result lies in
\* [min * f * (1 - variance), max * f * (1 + variance)].
C13_DelayWithinRange ==
    ret.op = "get_delay" =>
        LET lo == claimed_range(ret.type)[1] * DrawScale
            hi == claimed_range(ret.type)[2] * DrawScale
            jlo == (DelayUnit - 3) * DrawScale
            jhi == (DelayUnit + 3) * DrawScale
            f  == _calculate_fatigue(ret.time, start_time, ret.n, SAFETY_CONFIG)
        IN  /\ ret.value = ret.base * f * ret.jitter
            /\ lo <= ret.base /\ ret.base <= hi
            /\ jlo <= ret.jitter /\ ret.jitter <= jhi
            /\ lo * f * jlo <= ret.value
            /\ ret.value <= hi * f * jhi

\* C14: get_session_stats leaves start_time, action_count, last_break_time
\* and action_history unchanged, and with them what a later get_delay or
\* should_take_break returns at any reading of the clock and any draw.
C14_StatsReadOnly ==
    [][ret'.op = "get_session_stats" =>
        /\ pacer' = pacer
        /\ \A t \in {clock', clock' + ClockGrid}, r \in RandomDraws, u \in UnitDraws :
            /\ break_decision(t, start_time', last_break_time', r, u, SAFETY_CONFIG')
                 = break_decision(t, start_time, last_break_time, r, u, SAFETY_CONFIG)
            /\ _calculate_fatigue(t, start_time', action_count', SAFETY_CONFIG')
                 = _calculate_fatigue(t, start_time, action_count, SAFETY_CONFIG)
      ]_vars

\* a snapshot of a pacer that has acted and has recorded a break
C14_Witness ==
    /\ ret.op = "get_session_stats"
    /\ action_count > 0
    /\ last_break_time > start_time + ClockGrid
    /\ ret.stats.total_actions = action_count

\* C15: get_session_stats reports actions_per_hour = 0 whenever the elapsed
\* session time is 0, for any action_count, and never divides by zero; with a
\* positive elapsed time it reports action_count over the elapsed hours.
C15_RateGuarded ==
    ret.op = "get_session_stats" =>
        LET rate    == ret.stats.actions_per_hour
            elapsed == ret.time - start_time
        IN  /\ rate[2] # 0
            /\ elapsed = 0 => rate[1] = 0
            /\ elapsed > 0 => rate = <<action_count * 3600, elapsed>>

\* no time elapsed and many actions made
C15_Witness ==
    /\ ret.op = "get_session_stats"
    /\ ret.time = start_time
    /\ action_count > 1000
    /\ ret.stats.actions_per_hour[1] = 0

RECURSIVE Sum(_)
Sum(f) ==
    IF Len(f) = 0 THEN 0 ELSE f[Len(f)] + Sum(SubSeq(f, 1, Len(f) - 1))

C17_ScrollSumsToTotal ==
    ret.op = "human_scroll" =>
        /\ Len(ret.scrolled) \in {2, 3, 4, 5}
        /\ Sum(ret.scrolled)
             = IF ret.direction = "down" THEN ret.amount ELSE -ret.amount

\* C18: for any 0 <= min <= max, min = max included, the delay of the
\* 'normal' distribution lies within [min, max] for every normal draw, and
\* the delay of the 'uniform' distribution lies within [min, max].
C18_DelayWithinBounds ==
    (/\ ret.op = "human_delay"
     /\ 0 <= ret.min_ms
     /\ ret.min_ms <= ret.max_ms)
    => /\ ret.raised = "none"
       /\ MsScale * ret.min_ms <= ret.slept[1]
       /\ ret.slept[1] <= MsScale * ret.max_ms

\* a normal draw beyond three standard deviations, clipped to the upper bound
C18_Witness ==
    /\ ret.op = "human_delay"
    /\ ret.distribution = "normal"
    /\ 0 < ret.min_ms
    /\ ret.min_ms < ret.max_ms
    /\ ret.slept = <<MsScale * ret.max_ms>>
    /\ delay_ms_unclipped(ret.min_ms, ret.max_ms, "normal", MaxNormal, 0).delay_ms
         > MsScale * ret.max_ms

\* C19: a delay sampler given min > max, and a click-offset sampler given a
\* width or height that is not positive, reject the call with an
\* InvalidParameter error before any value is produced.
C19_InvalidParameterRejected ==
    /\ (ret.op = "human_delay" /\ ret.min_ms > ret.max_ms)
         => (ret.raised = "InvalidParameter" /\ ret.slept = <<>>)
    /\ (ret.op = "human_click" /\ ret.displayed /\ (ret.width <= 0 \/ ret.height <= 0))
         => (ret.raised = "InvalidParameter" /\ ret.clicked = <<>>)

\* p and q return the same delays and the same break decisions at the
\* reading t, the generator at g for p and at h for q
same_returns(p, g, q, h, t) ==
    /\ \A action_type \in SessionTypes :
        next_delay(p, t, g, action_type) = next_delay(q, t, h, action_type)
    /\ next_break(p, t, g) = next_break(q, t, h)

\* C20: two pacers share no mutable state: an operation on one leaves the
\* session state of the other unchanged, and leaves unchanged what the
\* other's get_delay and should_take_break return at the same reading of the
\* clock under the same seed.
C20_PacersIndependent ==
    [][/\ ret'.op \in {"get_delay", "should_take_break", "record_break"} =>
            /\ other' = other
            /\ same_returns(other', rng', other, rng, clock')
       /\ ret'.op \in {"other.get_delay", "other.should_take_break",
                       "other.record_break"} =>
            /\ pacer' = pacer
            /\ same_returns(first', rng', first, rng, clock')
      ]_vars

\* C21: action_count equals the number of completed get_delay calls in every
\* state of a sequentially used pacer: get_delay adds exactly 1, and
\* should_take_break, record_break and get_session_stats never change it.
C21_CountIsCompletedCalls ==
    /\ action_count = Len(appended)
    /\ ret.op = "get_delay" => action_count = ret.n + 1

\* a counted action followed by a recorded break and a poll
C21_Witness ==
    /\ action_count = 1
    /\ polled
    /\ ret.after = "record_break"

\* C22: record_break changes only last_break_time, which it sets to the
\* current time; start_time, action_count and action_history are left as
\* they were, so the fatigue multiplier is not reset or lowered.
C22_RecordBreakFrame ==
    [][ret'.op = "record_break" =>
        /\ last_break_time' = clock'
        /\ UNCHANGED <<start_time, action_count, action_history>>
        /\ _calculate_fatigue(clock', start_time', action_count', SAFETY_CONFIG')
             >= _calculate_fatigue(clock, start_time, action_count, SAFETY_CONFIG)
      ]_vars

\* a break recorded late, in a session that has acted and is fatigued
C22_Witness ==
    /\ ret.op = "record_break"
    /\ ret.waited > 0
    /\ action_count > 0
    /\ _calculate_fatigue(clock, start_time, action_count, SAFETY_CONFIG)
         > FatigueScale

\* C23: start_time is never modified after construction, and last_break_time
\* is modified by record_break only: get_delay, should_take_break (also when
\* it returns true) and get_session_stats leave both timestamps unchanged.
C23_TimestampsFrame ==
    [][/\ start_time' = start_time
       /\ last_break_time' # last_break_time => ret'.op = "record_break"
      ]_vars

\* a poll that decided for a break and left the last break where it was
C23_Witness ==
    /\ polled
    /\ ret.decision
    /\ ret.since_break > 0
    /\ clock - last_break_time = ret.since_break
    /\ start_time \in StartTimes

\* C24: at construction last_break_time is exactly start_time, so until the
\* first record_break the time since the last break is the elapsed session
\* time.
C24_BreakClockStartsAtStart ==
    ret.op = "__init__" =>
        /\ last_break_time = start_time
        /\ clock - last_break_time = clock - start_time

\* C25: last_break_time <= now in every state: the time since the last break
\* that should_take_break and get_session_stats compute is never negative.
C25_LastBreakNotAhead ==
    /\ last_break_time <= clock
    /\ polled => ret.since_break >= 0
    /\ ret.op = "get_session_stats" => ret.stats.time_since_break >= 0

\* a snapshot taken at the very reading of a recorded break
C25_Witness ==
    /\ ret.op = "get_session_stats"
    /\ ret.stats.time_since_break = 0
    /\ last_break_time > start_time + ClockGrid

\* the multiplier an observation at this state would see
current_fatigue ==
    _calculate_fatigue(clock, start_time, action_count, SAFETY_CONFIG)

\* C26: under a clock that does not go back the fatigue multiplier observed
\* by get_delay or get_session_stats never decreases from one observation
\* to a later one: no operation and no move of the clock lowers it, it is
\* non-decreasing in elapsed time and in action_count, and nothing resets it.
C26_FatigueNeverDecreases ==
    [][/\ current_fatigue' >= current_fatigue
       /\ (ret'.op = "get_delay" /\ action_count' # action_count)
            => ret'.fatigue = current_fatigue
       /\ ret'.op = "get_session_stats"
            => ret'.stats.current_fatigue = current_fatigue'
      ]_vars

\* the call that takes the count past 500, two hours into the session: the
\* next observation is above the one this call made
C26_Witness ==
    /\ ret.op = "get_delay"
    /\ ret.n = FATIGUE_ACTIONS
    /\ clock - start_time = 2 * 3600
    /\ current_fatigue > ret.fatigue
    /\ ret.fatigue > FatigueScale

\* C27: the micro-break draw is looked at only when the scheduled break is
\* not due, and before the session cap: with the time since the last break
\* below BREAK_FREQUENCY and a draw below 0.001, should_take_break returns
\* true with a duration within [30, 120] s, also when the elapsed session
\* time is at or past MAX_SESSION_DURATION.
C27_MicroBeforeSessionCap ==
    polled =>
        /\ ret.trigger = "micro" => ret.since_break < SAFETY_CONFIG.BREAK_FREQUENCY
        /\ (/\ ret.since_break < SAFETY_CONFIG.BREAK_FREQUENCY
            /\ ret.draw < MICRO_BREAK_CHANCE)
           => /\ ret.decision
              /\ ret.trigger = "micro"
              /\ ret.duration >= seconds(30)
              /\ ret.duration <= seconds(120)

\* a micro-break at a poll past the session maximum, the scheduled break
\* not due
C27_Witness ==
    /\ polled
    /\ ret.trigger = "micro"
    /\ ret.session > SAFETY_CONFIG.MAX_SESSION_DURATION
    /\ ret.since_break < SAFETY_CONFIG.BREAK_FREQUENCY
    /\ ret.since_break > 0

\* the construction time of the session of Spec
StartTimeOfSession == CHOOSE t \in StartTimes : TRUE

\* C29: once the elapsed session time has reached MAX_SESSION_DURATION every
\* later should_take_break returns true, as a scheduled, a micro or a long
\* break, however often record_break is called and however long the caller
\* waits: no operation resets start_time.
C29_SessionCapPermanent ==
    /\ (polled /\ ret.session >= SAFETY_CONFIG.MAX_SESSION_DURATION)
         => /\ ret.decision
            /\ ret.trigger \in {"scheduled", "micro", "long"}
            /\ ret.duration > 0
    /\ (polled /\ ret.time - StartTimeOfSession >= SAFETY_CONFIG.MAX_SESSION_DURATION)
         => ret.session >= SAFETY_CONFIG.MAX_SESSION_DURATION

\* the poll right after a break recorded at the very reading where the
\* session reached its maximum
C29_Witness ==
    /\ polled
    /\ ret.session = SAFETY_CONFIG.MAX_SESSION_DURATION
    /\ ret.after = "record_break"
    /\ ret.since_break = 0
    /\ ret.trigger = "long"

\* the scheduled break is due at the present reading of the clock
break_due == clock - last_break_time >= SAFETY_CONFIG.BREAK_FREQUENCY

\* C30: should_take_break does not acknowledge its own decision: it leaves
\* the session state unchanged, so once a scheduled break is due every later
\* poll returns true (scheduled) until record_break is called, with any
\* number of get_delay or get_session_stats calls in between.
C30_BreakDueUntilRecorded ==
    [][/\ ret'.op = "should_take_break" =>
            /\ UNCHANGED <<pacer, clock>>
            /\ break_due => (ret'.decision /\ ret'.trigger = "scheduled")
       /\ (break_due /\ ret'.op # "record_break") => break_due'
      ]_vars

\* a second poll in a row that reports the scheduled break, long overdue
C30_Witness ==
    /\ polled
    /\ ret.after = "should_take_break"
    /\ ret.trigger = "scheduled"
    /\ ret.since_break > SAFETY_CONFIG.BREAK_FREQUENCY
    /\ action_count > 0
    /\ break_due

\* no thread is inside get_delay
quiescent == \A t \in Threads : at(t).pc = "idle"

\* C28: the pacer has no lock of its own, so get_delay is not reentrant:
\* when the calls of two threads are serialized by the calling code,
\* action_count is never below the number of completed get_delay calls and
\* equals it whenever no call is running; without that serialization a
\* state with action_count below the number of completed calls is reached
\* (the witness: a lost update).
C28_SerializedCallsCount ==
    callers.mutex # "absent" =>
        /\ action_count >= callers.completed
        /\ action_count <= callers.completed + 1
        /\ quiescent => /\ action_count = callers.completed
                        /\ Len(appended) = callers.completed

\* calls that are not serialized: all have returned and action_count is
\* below their number
C28_Witness ==
    /\ callers.mutex = "absent"
    /\ quiescent
    /\ callers.completed = Cardinality(Threads) * MaxThreadCalls
    /\ action_count < callers.completed
    /\ Len(appended) = callers.completed

====
